---- MODULE Spec2Model ----
(***************************************************************************)
(* Model of the authentication / session lifecycle engine of the coupon    *)
(* backend: refresh-token issue, rotation with reuse detection, per-user   *)
(* revocation (backend/app/api/v1/auth.py, backend/app/models/             *)
(* refresh_token.py), the fixed-window rate limiter that gates login and   *)
(* request-otp, the OTP challenges behind request-otp and verify-otp, the  *)
(* session cache the endpoints fill, and the password-reset flow.          *)
(*                                                                         *)
(* The durable store is PostgreSQL (config.py:8) at its default isolation  *)
(* level: every SELECT / UPDATE statement sees the rows committed when the *)
(* statement runs, ORM attribute changes reach the table at db.commit(),   *)
(* and a session that is closed without commit loses its pending changes.  *)
(* Every database round trip of a handler is one step of the model.        *)
(***************************************************************************)
EXTENDS Integers, Sequences, FiniteSets, TLC

\* ---- bounds of the model ------------------------------------------------
NProcs == 2
NUsers == 2
NRaceUsers == 1
MaxTokens == 3
MaxJumps == 1
MaxHits == 7
MaxShortTicks == 3
MaxOtps == 2
MaxOtpTicks == 2
NCodes == 2
MaxResets == 2
NPasswords == 2

\* ---- program constants --------------------------------------------------
REFRESH_TOKEN_EXPIRE_DAYS == 30
SecondsPerDay == 86400
None == -1
LOGIN_RATE_MAX == 5
LOGIN_RATE_WINDOW == 300
OTP_RATE_MAX == 5
OTP_RATE_WINDOW == 300
OTP_EXPIRE_SECONDS == 300
OTP_MAX_ATTEMPTS == 5
ACCESS_TOKEN_EXPIRE_SECONDS == 86400
RESET_TTL_SECONDS == 1800

RefreshTTL == REFRESH_TOKEN_EXPIRE_DAYS * SecondsPerDay

Procs == 1..NProcs
Users == 1..NUsers
RaceUsers == 1..NRaceUsers
LogoutReason == "logout"

\* what a login request can present: an identifier of an account (its user
\* id) or one no account has (0), and how its credentials fare
Idents == 0..NUsers
Creds == {"ok", "bad", "nopassword", "unverified"}

\* the granularity of the clock inside a rate-limit window
TickStep == LOGIN_RATE_WINDOW \div 3

\* the phone numbers a request can name: account u has mobile u, and
\* NewMobile belongs to no account until verify-otp registers one for it
NewMobile == NUsers + 1
Mobiles == 1..NewMobile
RaceMobiles == {NewMobile}

\* the numeric codes the OTP generator can draw
Codes == 1..NCodes

\* the purpose the endpoints request and verify under (OTPAttempt.purpose)
LoginPurpose == "login"

\* the keys of the counter store: "login:<identifier>" is the identifier,
\* "otp:<mobile>" follows the login keys
OtpKey(m) == NUsers + m
RateKeys == Idents \cup {OtpKey(m) : m \in Mobiles}

\* the granularity of the clock around the lifetime of an OTP
OtpTickStep == OTP_EXPIRE_SECONDS \div 2 + 1

\* the raw secrets a request can present: the n-th token issued is n, and
\* MaxTokens + 1 is a secret that was never issued
RawTokens == 1..(MaxTokens + 1)

\* tokens: the committed rows of refresh_tokens, row id = position
\* users:  User.is_active of each account
\* now:    datetime.utcnow(), in seconds
\* calls:  the frame of each request handler: where it stands (pc), the row
\*         it loaded (sid), the rows and the time of its UPDATE (rows, at),
\*         the account it revokes for (uid)
\* ret:    the response sent by the step just taken
\* rl:     the counters of the rate limiter, one per login identifier
\* limit:  the limiter's answer in the step just taken
\* otps:   the stored OTP challenges, oldest first
\* signups: the mobiles whose account was created by verify-otp
\* cache:  the session projection cache, one entry per access token
\* resets: the password-reset tokens handed out, in the order of issue
\* passwords: User.password_hash of each account
VARIABLES tokens, users, now, calls, ret, rl, limit, otps, signups, cache,
          resets, passwords

vars == <<tokens, users, now, calls, ret, rl, limit, otps, signups, cache,
          resets, passwords>>

\* the state the refresh-token engine never touches
limiter == <<rl, limit>>
session == <<otps, signups, cache, resets, passwords>>

\* the state of the password-reset flow
reset == <<resets, passwords>>

\* ---- pure helpers -------------------------------------------------------

\* _hash_token: sha256 hex digest, a one-way injective map of the raw secret
HashToken(raw) == 2 * raw + 1001

\* RefreshToken.is_expired
IsExpired(rec, t) == t > rec.expires_at

\* RefreshToken.is_valid
IsValid(rec, t) == ~rec.is_revoked /\ ~IsExpired(rec, t)

\* select(RefreshToken).where(token_hash == h): row id, 0 when absent
Lookup(tbl, h) ==
    IF \E i \in DOMAIN tbl : tbl[i].token_hash = h
    THEN CHOOSE i \in DOMAIN tbl : tbl[i].token_hash = h
    ELSE 0

\* secrets.token_urlsafe(64): a secret no earlier record was issued for
FreshRaw(tbl) == Len(tbl) + 1

\* FreshFamily that hands out one and the same family id every time
FreshFamilyReused(tbl) == 1

\* str(uuid.uuid4()): a family id no earlier record carries
FreshFamily(tbl) == Len(tbl) + 1

\* NewToken that stores the raw secret where its hash belongs
NewTokenUnhashed(tbl, uid, fam, t, par) ==
    [token_hash |-> FreshRaw(tbl),
     token_family |-> IF fam = 0 THEN FreshFamily(tbl) ELSE fam,
     user_id |-> uid,
     expires_at |-> t + RefreshTTL,
     is_revoked |-> FALSE,
     revoked_at |-> None,
     revoked_reason |-> "",
     parent |-> par]

\* RefreshToken(...) as constructed by create_refresh_token_for_user;
\* parent is an auxiliary field (id of the record consumed by the rotation
\* that created this one, 0 for a fresh login), not a column
NewToken(tbl, uid, fam, t, par) ==
    [token_hash |-> HashToken(FreshRaw(tbl)),
     token_family |-> IF fam = 0 THEN FreshFamily(tbl) ELSE fam,
     user_id |-> uid,
     expires_at |-> t + RefreshTTL,
     is_revoked |-> FALSE,
     revoked_at |-> None,
     revoked_reason |-> "",
     parent |-> par]

\* create_refresh_token_for_user: db.add(refresh_token)
CreateRefreshToken(tbl, uid, fam, t, par) ==
    Append(tbl, NewToken(tbl, uid, fam, t, par))

\* RevokeRotated with the is_revoked flag forgotten
RevokeRotatedNoFlag(tbl, sid, t) ==
    [tbl EXCEPT ![sid] = [@ EXCEPT !.revoked_at = t,
                                   !.revoked_reason = "rotated"]]

\* RevokeRotated that also ends the lifetime of the revoked row
RevokeRotatedExpiring(tbl, sid, t) ==
    [tbl EXCEPT ![sid] = [@ EXCEPT !.is_revoked = TRUE,
                                   !.revoked_at = t,
                                   !.revoked_reason = "rotated",
                                   !.expires_at = t]]

\* RefreshToken.revoke(reason="rotated") on the loaded row, flushed as
\* UPDATE ... WHERE id = sid (last_used_at, which nothing reads, is left out)
RevokeRotated(tbl, sid, t) ==
    [tbl EXCEPT ![sid] = [@ EXCEPT !.is_revoked = TRUE,
                                   !.revoked_at = t,
                                   !.revoked_reason = "rotated"]]

\* PendingRevoke with the revoke written to the table at once
PendingRevokeWritten(tbl, sid, t) == RevokeRotated(tbl, sid, t)

\* lines 103-104: stored_token.revoke(reason="rotated") and last_used_at
\* change the loaded object; the table is written by the next commit only
PendingRevoke(tbl, sid, t) == tbl

\* CommitRotation with the successor lost: only the revoke is committed
CommitRotationNoSuccessor(tbl, sid, at, t) == RevokeRotated(tbl, sid, at)

\* the flush + commit of a successful rotation: the pending revoke of the
\* consumed row and the INSERT of the successor reach the table together
CommitRotation(tbl, sid, at, t) ==
    CreateRefreshToken(RevokeRotated(tbl, sid, at),
                       tbl[sid].user_id, tbl[sid].token_family, t, sid)

\* FamilyRows that matches every record of the owners of the family
FamilyRowsOfOwner(tbl, fam) ==
    {i \in DOMAIN tbl :
        \E j \in DOMAIN tbl : /\ tbl[j].token_family = fam
                              /\ tbl[i].user_id = tbl[j].user_id}

\* rows matched by filter(token_family == stored_token.token_family)
FamilyRows(tbl, fam) == {i \in DOMAIN tbl : tbl[i].token_family = fam}

\* UserLiveRows without the is_revoked == False condition
UserRowsAll(tbl, uid) == {i \in DOMAIN tbl : tbl[i].user_id = uid}

\* rows matched by filter(user_id == uid, is_revoked == False)
UserLiveRows(tbl, uid) ==
    {i \in DOMAIN tbl : tbl[i].user_id = uid /\ ~tbl[i].is_revoked}

\* .update({"is_revoked": True, "revoked_at": t, "revoked_reason": reason})
\* on the given rows
BulkRevoke(tbl, rows, t, reason) ==
    [i \in DOMAIN tbl |->
        IF i \in rows
        THEN [tbl[i] EXCEPT !.is_revoked = TRUE,
                            !.revoked_at = t,
                            !.revoked_reason = reason]
        ELSE tbl[i]]

\* revoke_user_refresh_tokens as one statement on a table
RevokeUserTokens(tbl, uid, reason, t) ==
    BulkRevoke(tbl, UserLiveRows(tbl, uid), t, reason)

\* Validate with the expiry check moved before the revoked check
ValidateExpiryFirst(tbl, raw, t) ==
    LET sid == Lookup(tbl, HashToken(raw)) IN
    IF sid = 0 THEN "InvalidToken"
    ELSE IF IsExpired(tbl[sid], t) THEN "Expired"
    ELSE IF tbl[sid].is_revoked THEN "theft"
    ELSE "proceed"

\* the checks of validate_and_rotate_refresh_token on the loaded row, in
\* the order of the code
Validate(tbl, raw, t) ==
    LET sid == Lookup(tbl, HashToken(raw)) IN
    IF sid = 0 THEN "InvalidToken"
    ELSE IF tbl[sid].is_revoked THEN "theft"
    ELSE IF IsExpired(tbl[sid], t) THEN "Expired"
    ELSE "proceed"

\* ---- rate limiter (redis_client.rate_limit) -----------------------------

\* a key the counter store does not hold; granted is an auxiliary field (how
\* many checks of the current window were answered allowed), not stored
NoCounter == [count |-> 0, expires_at |-> None, granted |-> 0]

\* no limiter answer in this step
NoAnswer == [allowed |-> TRUE, remaining |-> None, reset_in |-> None]

\* RateLimit that gives the increment back when it denies
RateLimitCompensating(cnt, t, max, window) ==
    LET live == cnt.count > 0 /\ t < cnt.expires_at
        n == IF live THEN cnt.count + 1 ELSE 1
        exp == IF live THEN cnt.expires_at ELSE t + window
        g == IF live THEN cnt.granted ELSE 0
    IN [counter |-> IF n <= max
                    THEN [count |-> n, expires_at |-> exp, granted |-> g + 1]
                    ELSE cnt,
        answer |-> [allowed |-> n <= max,
                    remaining |-> IF n < max THEN max - n ELSE 0,
                    reset_in |-> exp - t]]

\* check(scope_key, max_count, window_seconds): one atomic increment of the
\* key's counter; the first increment of a window sets the expiry;
\* allowed = (count <= max_count)
RateLimit(cnt, t, max, window) ==
    LET live == cnt.count > 0 /\ t < cnt.expires_at
        n == IF live THEN cnt.count + 1 ELSE 1
        exp == IF live THEN cnt.expires_at ELSE t + window
        g == IF live THEN cnt.granted ELSE 0
    IN [counter |-> [count |-> n, expires_at |-> exp,
                     granted |-> IF n <= max THEN g + 1 ELSE g],
        answer |-> [allowed |-> n <= max,
                    remaining |-> IF n < max THEN max - n ELSE 0,
                    reset_in |-> exp - t]]

\* the counter store drops a key when its expiry is reached
ExpireKeys(store, t) ==
    [k \in DOMAIN store |->
        IF store[k].count > 0 /\ t >= store[k].expires_at THEN NoCounter
                                                          ELSE store[k]]

\* LoginRateCheck with the limit and the window exchanged
LoginRateCheckSwapped(cnt, t) ==
    RateLimit(cnt, t, LOGIN_RATE_WINDOW, LOGIN_RATE_MAX)

\* login, line 268: rate_limit(f"login:{payload.identifier}", 5, 300)
LoginRateCheck(cnt, t) ==
    RateLimit(cnt, t, LOGIN_RATE_MAX, LOGIN_RATE_WINDOW)

\* OtpRateCheck with a limit one too high
OtpRateCheckOffByOne(cnt, t) ==
    RateLimit(cnt, t, OTP_RATE_MAX + 1, OTP_RATE_WINDOW)

\* request_otp_endpoint, line 356: rate_limit(f"otp:{mobile}", 5, 300)
OtpRateCheck(cnt, t) ==
    RateLimit(cnt, t, OTP_RATE_MAX, OTP_RATE_WINDOW)

\* ---- OTP challenge engine (otp.request_otp, otp.verify_and_consume_otp) -

\* the one-way hash of a code
OtpHash(code) == 3 * code + 7

\* OTPAttempt.is_expired
OtpIsExpired(rec, t) == t > rec.expires_at

\* OtpAttemptsLeft that lets one attempt too many through
OtpAttemptsLeftOffByOne(rec) == rec.attempts <= rec.max_attempts

\* OTPAttempt.is_valid, last conjunct: attempts < max_attempts
OtpAttemptsLeft(rec) == rec.attempts < rec.max_attempts

\* OtpConsumed that never finds a challenge consumed
OtpConsumedNever(rec) == FALSE

\* OTPAttempt.is_valid, first conjunct: a verified challenge is used up
OtpConsumed(rec) == rec.is_verified

\* OTPAttempt.is_valid
OtpIsValid(rec, t) ==
    ~OtpConsumed(rec) /\ ~OtpIsExpired(rec, t) /\ OtpAttemptsLeft(rec)

\* an active challenge: unverified and unexpired
OtpActive(rec, t) == ~rec.is_verified /\ ~OtpIsExpired(rec, t)

\* OTPAttempt(...) with the column defaults of the model class; compared,
\* wins and prev are auxiliary fields (how often the stored hash was compared
\* with a presented code, how often a verify call succeeded, the hash of the
\* challenge this one superseded or 0), not columns
NewOtp(id, purpose, code, t) ==
    [identifier |-> id,
     purpose |-> purpose,
     otp_hash |-> OtpHash(code),
     attempts |-> 0,
     max_attempts |-> OTP_MAX_ATTEMPTS,
     is_verified |-> FALSE,
     verified_at |-> None,
     expires_at |-> t + OTP_EXPIRE_SECONDS,
     compared |-> 0,
     wins |-> 0,
     prev |-> 0]

\* the challenges left when the active ones of a key are superseded
Supersede(tbl, id, purpose, t) ==
    LET Keep(r) == ~(r.identifier = id /\ r.purpose = purpose /\ OtpActive(r, t))
    IN SelectSeq(tbl, Keep)

\* the hash of the active challenge of a key, 0 when it has none
ActiveHash(tbl, id, purpose, t) ==
    LET S == {i \in DOMAIN tbl : /\ tbl[i].identifier = id
                                 /\ tbl[i].purpose = purpose
                                 /\ OtpActive(tbl[i], t)}
    IN IF S = {} THEN 0 ELSE tbl[CHOOSE i \in S : \A j \in S : j <= i].otp_hash

\* request(identifier, purpose): the new challenge replaces the active one
\* of the same key in one store operation
OtpRequest(tbl, id, purpose, code, t) ==
    Append(Supersede(tbl, id, purpose, t),
           [NewOtp(id, purpose, code, t) EXCEPT
               !.prev = ActiveHash(tbl, id, purpose, t)])

\* the record verify loads: the newest challenge of the key, 0 when there
\* is none
OtpLoad(tbl, id, purpose) ==
    LET S == {i \in DOMAIN tbl : /\ tbl[i].identifier = id
                                 /\ tbl[i].purpose = purpose}
    IN IF S = {} THEN 0 ELSE CHOOSE i \in S : \A j \in S : j <= i

\* verify(identifier, purpose, code): one atomic read-modify-write of the
\* loaded record; the result and the store afterwards
OtpVerify(tbl, id, purpose, code, t) ==
    LET i == OtpLoad(tbl, id, purpose) IN
    IF i = 0 \/ OtpConsumed(tbl[i]) THEN [tbl |-> tbl, result |-> "OTPNotFound"]
    ELSE IF OtpIsExpired(tbl[i], t) THEN [tbl |-> tbl, result |-> "OTPExpired"]
    ELSE IF ~OtpAttemptsLeft(tbl[i])
         THEN [tbl |-> tbl, result |-> "OTPAttemptsExceeded"]
    ELSE IF tbl[i].otp_hash # OtpHash(code)
         THEN [tbl |-> [tbl EXCEPT ![i].attempts = @ + 1,
                                   ![i].compared = @ + 1],
               result |-> "OTPMismatch"]
    ELSE [tbl |-> [tbl EXCEPT ![i].is_verified = TRUE,
                              ![i].verified_at = t,
                              ![i].compared = @ + 1,
                              ![i].wins = @ + 1],
          result |-> "OK"]

\* CreateOtp that stores the new challenge next to the old ones
CreateOtpKeepingOld(tbl, mobile, code, t) ==
    Append(tbl, NewOtp(mobile, LoginPurpose, code, t))

\* request_otp_endpoint, line 361: create_otp(mobile), the purpose left to
\* its default
CreateOtp(tbl, mobile, code, t) ==
    OtpRequest(tbl, mobile, LoginPurpose, code, t)

\* VerifyAndConsumeOtp whose count of a mismatch never reaches the store
VerifyAndConsumeOtpUncommitted(tbl, mobile, code, t) ==
    LET v == OtpVerify(tbl, mobile, LoginPurpose, code, t)
        i == OtpLoad(tbl, mobile, LoginPurpose)
    IN IF v.result = "OTPMismatch"
       THEN [tbl |-> [tbl EXCEPT ![i].compared = @ + 1], result |-> v.result]
       ELSE v

\* VerifyAndConsumeOtp that verifies under another purpose than the one
\* the challenge was requested under
VerifyAndConsumeOtpOtherPurpose(tbl, mobile, code, t) ==
    OtpVerify(tbl, mobile, "register", code, t)

\* verify_otp_endpoint, line 392: verify_and_consume_otp(mobile, payload.otp)
VerifyAndConsumeOtp(tbl, mobile, code, t) ==
    OtpVerify(tbl, mobile, LoginPurpose, code, t)

\* ---- session projection cache (redis_client.cache_set / cache_invalidate)

\* put(access_token, snapshot, ttl): the entry of the token is replaced
CachePut(cch, a, uid, t, ttl) ==
    {e \in cch : e.token # a}
        \cup {[token |-> a, user |-> uid, expires_at |-> t + ttl]}

\* invalidate(access_token)
CacheInvalidate(cch, a) == {e \in cch : e.token # a}

\* the store drops an entry when its TTL is reached
ExpireCache(cch, t) == {e \in cch : t < e.expires_at}

\* lines 316-333, 417-434, 461-478: cache_set(rk("session", access_token),
\* {"user": user_data, ...}, ACCESS_TOKEN_EXPIRE_SECONDS)
SessionPut(cch, a, uid, t) ==
    CachePut(cch, a, uid, t, ACCESS_TOKEN_EXPIRE_SECONDS)

\* ---- password reset (cache entries under rk("pwdreset", token)) ---------

\* the new passwords a confirm request can carry
Passwords == 1..NPasswords

\* the reset tokens a confirm request can present: the n-th token handed out
\* is n, and MaxResets + 1 is a token that was never handed out
ResetTokens == 1..(MaxResets + 1)

\* get_password_hash: a one-way map of the password
PwHash(pw) == 5 * pw + 3

\* line 670: cache_set(rk("pwdreset", token), {"user_id": user.id},
\* RESET_TTL_SECONDS) for a token uuid4 has just drawn; present tells
\* whether the cache still holds the key, and uses is an auxiliary field (how
\* many confirm calls changed a password with this token), not stored
NewReset(uid, t) ==
    [user |-> uid, expires_at |-> t + RESET_TTL_SECONDS, present |-> TRUE,
     uses |-> 0]

\* the store drops a reset token when its TTL is reached
ExpireResets(tbl, t) ==
    [k \in DOMAIN tbl |->
        IF t >= tbl[k].expires_at THEN [tbl[k] EXCEPT !.present = FALSE]
                                  ELSE tbl[k]]

\* line 678: cache_get(rk("pwdreset", payload.token)): the account the token
\* was handed out for, 0 when the cache does not hold it
ResetGet(tbl, tok) ==
    IF tok \in DOMAIN tbl /\ tbl[tok].present THEN tbl[tok].user ELSE 0

\* ---- call frames --------------------------------------------------------

\* the frame of a handler that is not running
Idle ==
    [pc |-> "idle", sid |-> 0, rows |-> {}, at |-> None, uid |-> 0]

Init ==
    /\ tokens = <<>>
    /\ users = [u \in Users |-> TRUE]
    /\ now = 0
    /\ calls = [c \in Procs |-> Idle]
    /\ ret = "none"
    /\ rl = [k \in RateKeys |-> NoCounter]
    /\ limit = NoAnswer
    /\ otps = <<>>
    /\ signups = {}
    /\ cache = {}
    /\ resets = <<>>
    /\ passwords = [u \in Users |-> PwHash(0)]

\* ---- POST /auth/refresh-token: validate_and_rotate_refresh_token --------

\* a handler returns res; its session is closed by get_db, which discards
\* every change that was not committed. ret is the response sent by the step
\* just taken, "none" when that step sent none
Return(c, res) ==
    /\ calls' = [calls EXCEPT ![c] = Idle]
    /\ ret' = res

\* which way the handler goes after the user row is loaded
\* (if not user or not user.is_active)
OwnerCheck(active) == IF active THEN "create" ELSE "UserInactive"

\* RotateRead that also revokes and commits the row it found expired
RotateReadRevokingExpired(c, raw) ==
    /\ calls[c].pc = "idle"
    /\ LET v == Validate(tokens, raw, now)
           sid == Lookup(tokens, HashToken(raw)) IN
       IF v \in {"InvalidToken", "Expired"}
       THEN /\ Return(c, v)
            /\ tokens' = IF v = "Expired" THEN RevokeRotated(tokens, sid, now)
                                          ELSE tokens
       ELSE /\ calls' = [calls EXCEPT ![c] =
                [pc |-> IF v = "theft" THEN "theft" ELSE "user",
                 sid |-> sid, rows |-> {}, at |-> now,
                 uid |-> tokens[sid].user_id]]
            /\ ret' = "none"
            /\ tokens' = IF v = "theft" THEN tokens
                                        ELSE PendingRevoke(tokens, sid, now)
    /\ UNCHANGED <<users, now, limiter, session>>

\* lines 84-104: hash the secret, SELECT the row, check it, and mark it
\* revoked in the session (not yet in the table)
RotateRead(c, raw) ==
    /\ calls[c].pc = "idle"
    /\ LET v == Validate(tokens, raw, now)
           sid == Lookup(tokens, HashToken(raw)) IN
       IF v \in {"InvalidToken", "Expired"}
       THEN Return(c, v) /\ UNCHANGED tokens
       ELSE /\ calls' = [calls EXCEPT ![c] =
                [pc |-> IF v = "theft" THEN "theft" ELSE "user",
                 sid |-> sid, rows |-> {}, at |-> now,
                 uid |-> tokens[sid].user_id]]
            /\ ret' = "none"
            /\ tokens' = IF v = "theft" THEN tokens
                                        ELSE PendingRevoke(tokens, sid, now)
    /\ UNCHANGED <<users, now, limiter, session>>

\* lines 94-96: the bulk UPDATE on the family, run on the rows committed now
RotateTheftUpdate(c) ==
    /\ calls[c].pc = "theft"
    /\ calls' = [calls EXCEPT ![c].pc = "theft_commit",
                              ![c].rows = FamilyRows(tokens, tokens[calls[c].sid].token_family),
                              ![c].at = now]
    /\ ret' = "none"
    /\ UNCHANGED <<tokens, users, now, limiter, session>>

\* lines 97-98: db.commit() of the family revocation, return the error
RotateTheftCommit(c) ==
    /\ calls[c].pc = "theft_commit"
    /\ tokens' = BulkRevoke(tokens, calls[c].rows, calls[c].at, "family_revoked")
    /\ Return(c, "TokenReused")
    /\ UNCHANGED <<users, now, limiter, session>>

\* lines 106-108: load the owner; an inactive owner ends the call without
\* commit
RotateUserQuery(c) ==
    /\ calls[c].pc = "user"
    /\ LET nxt == OwnerCheck(users[calls[c].uid]) IN
       IF nxt = "create"
       THEN calls' = [calls EXCEPT ![c].pc = "create"] /\ ret' = "none"
       ELSE Return(c, nxt)
    /\ UNCHANGED <<tokens, users, now, limiter, session>>

\* lines 110-118: create_refresh_token_for_user in the same family; its
\* db.commit() writes the revoke and the successor
RotateCommit(c) ==
    /\ calls[c].pc = "create"
    /\ Len(tokens) < MaxTokens
    /\ tokens' = CommitRotation(tokens, calls[c].sid, calls[c].at, now)
    /\ Return(c, "OK")
    /\ UNCHANGED <<users, now, limiter, session>>

\* ---- revoke_user_refresh_tokens (logout, account suspension) ------------

\* lines 123-130: the bulk UPDATE, run on the rows committed now
RevokeStart(c, u) ==
    /\ calls[c].pc = "idle"
    /\ calls' = [calls EXCEPT ![c] =
            [pc |-> "revoke_commit", sid |-> 0,
             rows |-> UserLiveRows(tokens, u), at |-> now, uid |-> u]]
    /\ ret' = "none"
    /\ UNCHANGED <<tokens, users, now, limiter, session>>

\* line 131: db.commit(); a row another transaction revoked meanwhile no
\* longer matches is_revoked == False and is left as that transaction wrote it
RevokeCommit(c) ==
    /\ calls[c].pc = "revoke_commit"
    /\ tokens' = BulkRevoke(tokens,
                            calls[c].rows \cap UserLiveRows(tokens, calls[c].uid),
                            calls[c].at, LogoutReason)
    /\ Return(c, "Revoked")
    /\ UNCHANGED <<users, now, limiter, session>>

\* ---- issue on login / verify-otp ----------------------------------------

\* create_refresh_token_for_user(db, user_id) with no family: a new lineage
Issue(u) ==
    /\ Len(tokens) < MaxTokens
    /\ tokens' = CreateRefreshToken(tokens, u, 0, now, 0)
    /\ ret' = "none"
    /\ UNCHANGED <<users, now, calls, limiter, session>>

\* ---- environment --------------------------------------------------------

\* an administrator suspends or reactivates an account (User.is_active)
SetActive(u, b) ==
    /\ users[u] # b
    /\ users' = [users EXCEPT ![u] = b]
    /\ ret' = "none"
    /\ UNCHANGED <<tokens, now, calls, limiter, session>>

\* time passes beyond the lifetime of the tokens issued so far
TickExpiry ==
    /\ now < MaxJumps * (RefreshTTL + 1)
    /\ now' = now + RefreshTTL + 1
    /\ ret' = "none"
    /\ rl' = ExpireKeys(rl, now')
    /\ limit' = NoAnswer
    /\ cache' = ExpireCache(cache, now')
    /\ resets' = ExpireResets(resets, now')
    /\ UNCHANGED <<tokens, users, calls, otps, signups, passwords>>

\* a stretch of TickStep seconds passes
TickSeconds ==
    /\ now < MaxShortTicks * TickStep
    /\ now' = now + TickStep
    /\ rl' = ExpireKeys(rl, now')
    /\ limit' = NoAnswer
    /\ ret' = "none"
    /\ cache' = ExpireCache(cache, now')
    /\ resets' = ExpireResets(resets, now')
    /\ UNCHANGED <<tokens, users, calls, otps, signups, passwords>>

\* create_access_token(str(user.id)): the access token minted together with
\* the newest refresh-token record is named by that record's id
AccessTokenOf(tbl) == Len(tbl)

\* ---- POST /auth/login ---------------------------------------------------

\* lines 272-307: what login answers once the limiter has let it pass
LoginOutcome(id, cred) ==
    IF id \notin Users THEN "InvalidCredentials"
    ELSE IF cred = "nopassword" THEN "PasswordNotSet"
    ELSE IF cred = "bad" THEN "InvalidCredentials"
    ELSE IF ~users[id] THEN "AccountDisabled"
    ELSE IF cred = "unverified" THEN "EmailNotVerified"
    ELSE "LoginOK"

\* lines 261-345: the limiter first; a request it lets pass is checked
\* against the account and, when all is well, gets a token of a new family
Login(id, cred) ==
    /\ rl[id].count < MaxHits
    /\ LET r == LoginRateCheck(rl[id], now)
           out == IF r.answer.allowed THEN LoginOutcome(id, cred)
                                      ELSE "RateLimited" IN
       /\ rl' = [rl EXCEPT ![id] = r.counter]
       /\ limit' = r.answer
       /\ ret' = out
       /\ IF out = "LoginOK"
          THEN /\ Len(tokens) < MaxTokens
               /\ tokens' = CreateRefreshToken(tokens, id, 0, now, 0)
               /\ cache' = SessionPut(cache, AccessTokenOf(tokens'), id, now)
          ELSE UNCHANGED <<tokens, cache>>
    /\ UNCHANGED <<users, now, calls, otps, signups, reset>>

\* ---- POST /auth/request-otp --------------------------------------------

\* RequestOtpLimit whose denied request still retires the active challenge
RequestOtpLimitSuperseding(c, m) ==
    /\ calls[c].pc = "idle"
    /\ rl[OtpKey(m)].count < MaxHits
    /\ LET r == OtpRateCheck(rl[OtpKey(m)], now) IN
       /\ rl' = [rl EXCEPT ![OtpKey(m)] = r.counter]
       /\ limit' = r.answer
       /\ IF r.answer.allowed
          THEN /\ calls' = [calls EXCEPT ![c] = [Idle EXCEPT !.pc = "otp_create",
                                                             !.uid = m]]
               /\ ret' = "none"
               /\ otps' = otps
          ELSE /\ Return(c, "RateLimited")
               /\ otps' = Supersede(otps, m, LoginPurpose, now)
    /\ UNCHANGED <<tokens, users, now, signups, cache, reset>>

\* lines 352-358: the limiter first; a denied request ends with 429
RequestOtpLimit(c, m) ==
    /\ calls[c].pc = "idle"
    /\ rl[OtpKey(m)].count < MaxHits
    /\ LET r == OtpRateCheck(rl[OtpKey(m)], now) IN
       /\ rl' = [rl EXCEPT ![OtpKey(m)] = r.counter]
       /\ limit' = r.answer
       /\ IF r.answer.allowed
          THEN /\ calls' = [calls EXCEPT ![c] = [Idle EXCEPT !.pc = "otp_create",
                                                             !.uid = m]]
               /\ ret' = "none"
          ELSE Return(c, "RateLimited")
    /\ UNCHANGED <<tokens, users, now, session>>

\* lines 360-381: create_otp(mobile) stores the challenge of a freshly
\* drawn code; the code leaves by SMS
RequestOtpCreate(c) ==
    /\ calls[c].pc = "otp_create"
    /\ Len(otps) < MaxOtps
    /\ \E code \in Codes : otps' = CreateOtp(otps, calls[c].uid, code, now)
    /\ Return(c, "OtpSent")
    /\ UNCHANGED <<tokens, users, now, limiter, signups, cache, reset>>

\* ---- POST /auth/verify-otp ---------------------------------------------

\* db.query(User).filter(User.mobile == mobile).first(): the account of a
\* mobile, 0 when there is none
UserByMobile(m, reg) == IF m \in Users \/ m \in reg THEN m ELSE 0

\* lines 387-395: verify_and_consume_otp; a failure ends with 400
VerifyOtpCheck(c, m, code) ==
    /\ calls[c].pc = "idle"
    /\ LET v == VerifyAndConsumeOtp(otps, m, code, now) IN
       /\ otps' = v.tbl
       /\ IF v.result = "OK"
          THEN /\ calls' = [calls EXCEPT ![c] = [Idle EXCEPT !.pc = "otp_user",
                                                             !.uid = m]]
               /\ ret' = "none"
          ELSE Return(c, v.result)
    /\ UNCHANGED <<tokens, users, now, limiter, signups, cache, reset>>

\* lines 397-412: find the account of the mobile or register one
VerifyOtpUser(c) ==
    /\ calls[c].pc = "otp_user"
    /\ signups' = IF UserByMobile(calls[c].uid, signups) = 0
                  THEN signups \cup {calls[c].uid}
                  ELSE signups
    /\ calls' = [calls EXCEPT ![c].pc = "otp_issue"]
    /\ ret' = "none"
    /\ UNCHANGED <<tokens, users, now, limiter, otps, cache, reset>>

\* lines 414-446: mint the token pair, fill the session cache, answer
VerifyOtpIssue(c) ==
    /\ calls[c].pc = "otp_issue"
    /\ Len(tokens) < MaxTokens
    /\ tokens' = CreateRefreshToken(tokens, calls[c].uid, 0, now, 0)
    /\ cache' = SessionPut(cache, AccessTokenOf(tokens'), calls[c].uid, now)
    /\ Return(c, "LoginOK")
    /\ UNCHANGED <<users, now, limiter, otps, signups, reset>>

\* a stretch of OtpTickStep seconds passes
TickOtp ==
    /\ now < MaxOtpTicks * OtpTickStep
    /\ now' = now + OtpTickStep
    /\ rl' = ExpireKeys(rl, now')
    /\ limit' = NoAnswer
    /\ ret' = "none"
    /\ cache' = ExpireCache(cache, now')
    /\ resets' = ExpireResets(resets, now')
    /\ UNCHANGED <<tokens, users, calls, otps, signups, passwords>>

\* ---- POST /auth/refresh-token and POST /auth/logout, one request at a time

\* User.is_active of an account; verify-otp registers accounts active
IsActive(usr, reg, u) == IF u \in DOMAIN usr THEN usr[u] ELSE u \in reg

\* decode_token(token).get("sub"): the account an access token was minted
\* for, 0 when the token is not one that was minted or is past its lifetime
DecodeToken(tbl, a, t) ==
    IF a \in DOMAIN tbl
          /\ t <= tbl[a].expires_at - RefreshTTL + ACCESS_TOKEN_EXPIRE_SECONDS
    THEN tbl[a].user_id
    ELSE 0

\* refresh_token_endpoint, lines 450-490, run without interruption on the
\* records tbl, the accounts usr and reg and the cache cch: the response and
\* what it leaves behind
RefreshResult(tbl, usr, reg, cch, raw, t) ==
    LET v == Validate(tbl, raw, t)
        sid == Lookup(tbl, HashToken(raw))
    IN IF v \in {"InvalidToken", "Expired"}
       THEN [ret |-> v, tokens |-> tbl, cache |-> cch]
       ELSE IF v = "theft"
       THEN [ret |-> "TokenReused",
             tokens |-> BulkRevoke(tbl, FamilyRows(tbl, tbl[sid].token_family),
                                   t, "family_revoked"),
             cache |-> cch]
       ELSE IF OwnerCheck(IsActive(usr, reg, tbl[sid].user_id)) # "create"
       THEN [ret |-> "UserInactive", tokens |-> tbl, cache |-> cch]
       ELSE LET new == CommitRotation(tbl, sid, t, t) IN
            [ret |-> "OK", tokens |-> new,
             cache |-> SessionPut(cch, AccessTokenOf(new), tbl[sid].user_id, t)]

\* the refresh endpoint as one step
RefreshToken(raw) ==
    /\ LET r == RefreshResult(tokens, users, signups, cache, raw, now) IN
       /\ Len(r.tokens) <= MaxTokens
       /\ tokens' = r.tokens
       /\ cache' = r.cache
       /\ ret' = r.ret
    /\ UNCHANGED <<users, now, calls, limiter, otps, signups, reset>>

\* LogoutUser that takes the account from the session cache entry
LogoutUserFromCache(cch, tbl, a, t) ==
    IF \E e \in cch : e.token = a
    THEN (CHOOSE e \in cch : e.token = a).user
    ELSE 0

\* logout, lines 506-508: the account the request acts for, taken from the
\* access token itself whatever the cache cch holds
LogoutUser(cch, tbl, a, t) == DecodeToken(tbl, a, t)

\* logout, lines 494-514, on the records tbl and the cache cch; a = 0 is a
\* request without Authorization header
LogoutResult(tbl, cch, a, t) ==
    IF a = 0 THEN [ret |-> "MissingToken", tokens |-> tbl, cache |-> cch]
    ELSE LET u == LogoutUser(cch, tbl, a, t) IN
         [ret |-> "LoggedOut",
          tokens |-> IF u = 0 THEN tbl
                              ELSE RevokeUserTokens(tbl, u, LogoutReason, t),
          cache |-> CacheInvalidate(cch, a)]

\* the logout endpoint as one step
Logout(a) ==
    /\ LET r == LogoutResult(tokens, cache, a, now) IN
       /\ tokens' = r.tokens
       /\ cache' = r.cache
       /\ ret' = r.ret
    /\ UNCHANGED <<users, now, calls, limiter, otps, signups, reset>>

\* the cache loses an entry (eviction, restart of the store)
CacheEvict(a) ==
    /\ \E e \in cache : e.token = a
    /\ cache' = CacheInvalidate(cache, a)
    /\ ret' = "none"
    /\ UNCHANGED <<tokens, users, now, calls, limiter, otps, signups, reset>>

\* ---- POST /auth/request-otp and POST /auth/verify-otp, one request at a time

\* the purposes a request-otp payload can name (OTPRequest.purpose)
Purposes == {"login", "register"}

\* request_otp_endpoint, lines 349-381, run without interruption for a
\* payload naming mobile m and purpose p; the handler reads payload.mobile
\* only, so p appears nowhere in what it does
RequestOtpFor(m, p) ==
    /\ rl[OtpKey(m)].count < MaxHits
    /\ LET r == OtpRateCheck(rl[OtpKey(m)], now) IN
       /\ rl' = [rl EXCEPT ![OtpKey(m)] = r.counter]
       /\ limit' = r.answer
       /\ IF r.answer.allowed
          THEN /\ Len(otps) < MaxOtps
               /\ \E code \in Codes : otps' = CreateOtp(otps, m, code, now)
               /\ ret' = "OtpSent"
          ELSE /\ otps' = otps
               /\ ret' = "RateLimited"
    /\ UNCHANGED <<tokens, users, now, calls, signups, cache, reset>>

\* verify_otp_endpoint, lines 385-446, run without interruption: the code
\* check, the account of the mobile (registered when there is none), the
\* token pair and the session cache entry
VerifyOtpFor(m, code) ==
    /\ LET v == VerifyAndConsumeOtp(otps, m, code, now) IN
       /\ otps' = v.tbl
       /\ IF v.result = "OK"
          THEN /\ Len(tokens) < MaxTokens
               /\ signups' = IF UserByMobile(m, signups) = 0
                             THEN signups \cup {m}
                             ELSE signups
               /\ tokens' = CreateRefreshToken(tokens, UserByMobile(m, signups'),
                                               0, now, 0)
               /\ cache' = SessionPut(cache, AccessTokenOf(tokens'),
                                      UserByMobile(m, signups'), now)
               /\ ret' = "LoginOK"
          ELSE /\ ret' = v.result
               /\ UNCHANGED <<tokens, signups, cache>>
    /\ UNCHANGED <<users, now, calls, limiter, reset>>

\* ---- POST /auth/password-reset/request and /confirm ---------------------

\* password_reset_request, lines 664-674: an email no account has (u = 0)
\* gets the same answer and no token
PasswordResetRequest(u) ==
    /\ Len(resets) < MaxResets
    /\ resets' = IF u = 0 THEN resets ELSE Append(resets, NewReset(u, now))
    /\ ret' = "ResetLinkSent"
    /\ UNCHANGED <<tokens, users, now, calls, limiter, otps, signups, cache,
                   passwords>>

\* lines 678-683: read the token from the cache and load its account
ResetRead(c, tok) ==
    /\ calls[c].pc = "idle"
    /\ LET u == ResetGet(resets, tok) IN
       IF u = 0
       THEN Return(c, "Invalid or expired token")
       ELSE /\ calls' = [calls EXCEPT ![c] = [Idle EXCEPT !.pc = "reset_write",
                                                          !.sid = tok,
                                                          !.uid = u]]
            /\ ret' = "none"
    /\ UNCHANGED <<tokens, users, now, limiter, session>>

\* lines 684-685: set the new password hash and commit
ResetCommit(c) ==
    /\ calls[c].pc = "reset_write"
    /\ \E pw \in Passwords :
          passwords' = [passwords EXCEPT ![calls[c].uid] = PwHash(pw)]
    /\ resets' = [resets EXCEPT ![calls[c].sid].uses = @ + 1]
    /\ calls' = [calls EXCEPT ![c].pc = "reset_drop"]
    /\ ret' = "none"
    /\ UNCHANGED <<tokens, users, now, limiter, otps, signups, cache>>

\* lines 686-688: drop the token from the cache and answer
ResetInvalidate(c) ==
    /\ calls[c].pc = "reset_drop"
    /\ resets' = [resets EXCEPT ![calls[c].sid].present = FALSE]
    /\ Return(c, "Password updated successfully")
    /\ UNCHANGED <<tokens, users, now, limiter, otps, signups, cache,
                   passwords>>

\* one step of handler c on the OTP endpoints, for the mobiles M
OtpStep(c, M) ==
    \/ \E m \in M : RequestOtpLimit(c, m)
    \/ RequestOtpCreate(c)
    \/ \E m \in M, code \in Codes : VerifyOtpCheck(c, m, code)
    \/ VerifyOtpUser(c)
    \/ VerifyOtpIssue(c)

\* one step of handler c, serving the accounts U
HandlerStep(c, U) ==
    \/ \E raw \in RawTokens : RotateRead(c, raw)
    \/ RotateTheftUpdate(c)
    \/ RotateTheftCommit(c)
    \/ RotateUserQuery(c)
    \/ RotateCommit(c)
    \/ \E u \in U : RevokeStart(c, u)
    \/ RevokeCommit(c)

\* logins, suspensions and the passing of time for the accounts U
EnvStep(U) ==
    \/ \E u \in U : Issue(u)
    \/ \E u \in U, b \in BOOLEAN : SetActive(u, b)
    \/ TickExpiry

\* concurrent handlers on the sessions of the accounts RaceUsers
Next ==
    \/ \E c \in Procs : HandlerStep(c, RaceUsers)
    \/ EnvStep(RaceUsers)

Spec == Init /\ [][Next]_vars

\* one handler at a time, every account
NextSeq ==
    \/ HandlerStep(1, Users)
    \/ EnvStep(Users)

SpecSeq == Init /\ [][NextSeq]_vars

\* login requests under the rate limiter, for the accounts RaceUsers and
\* for an identifier no account has
NextLogin ==
    \/ \E id \in {0} \cup RaceUsers, cred \in Creds : Login(id, cred)
    \/ \E u \in RaceUsers, b \in BOOLEAN : SetActive(u, b)
    \/ TickSeconds

SpecLogin == Init /\ [][NextLogin]_vars

\* concurrent handlers on the OTP endpoints
NextOtp ==
    \/ \E c \in Procs : OtpStep(c, RaceMobiles)
    \/ TickOtp

SpecOtp == Init /\ [][NextOtp]_vars

\* the access tokens a logout can present: none (0), a minted one, or one
\* that was never minted
AccessTokens == 0..(MaxTokens + 1)

\* the endpoints one request at a time, with a cache that may lose entries;
\* of the OTP endpoints one challenge and its first verify-otp are followed
\* here (SpecOtp explores them in full), and of the logins the first two
\* of a window (SpecLogin explores them in full)
NextSession ==
    \/ \E id \in RaceUsers, cred \in {"ok", "bad"} :
          rl[id].count < 2 /\ Login(id, cred)
    \/ \E m \in RaceMobiles : otps = <<>> /\ RequestOtpLimit(1, m)
    \/ RequestOtpCreate(1)
    \/ \E m \in RaceMobiles, code \in Codes :
          /\ \A i \in DOMAIN otps : otps[i].compared = 0
          /\ VerifyOtpCheck(1, m, code)
    \/ VerifyOtpUser(1)
    \/ VerifyOtpIssue(1)
    \/ \E raw \in RawTokens : RefreshToken(raw)
    \/ \E a \in AccessTokens : Logout(a)
    \/ \E a \in AccessTokens : CacheEvict(a)
    \/ \E u \in RaceUsers, b \in BOOLEAN : SetActive(u, b)
    \/ TickExpiry

SpecSession == Init /\ [][NextSession]_vars

\* the mobiles of the accounts RaceUsers and the mobile of no account
SignInMobiles == RaceUsers \cup {NewMobile}

\* OTP sign-in one request at a time, for a mobile with an account and for
\* one without, next to refresh and account suspension; of the request-otp
\* calls the first two of a window and of the verify-otp calls on one
\* challenge the first two are followed here (SpecOtp explores both in full)
NextMobile ==
    \/ \E m \in SignInMobiles, p \in Purposes :
          rl[OtpKey(m)].count < 2 /\ RequestOtpFor(m, p)
    \/ \E m \in SignInMobiles, code \in Codes :
          /\ \A i \in DOMAIN otps : otps[i].compared < 2
          /\ VerifyOtpFor(m, code)
    \/ \E raw \in RawTokens : RefreshToken(raw)
    \/ \E u \in RaceUsers, b \in BOOLEAN : SetActive(u, b)
    \/ TickOtp

SpecMobile == Init /\ [][NextMobile]_vars

\* concurrent confirm requests on the reset tokens of the accounts
\* RaceUsers
NextReset ==
    \/ \E u \in {0} \cup RaceUsers : PasswordResetRequest(u)
    \/ \E c \in Procs, tok \in ResetTokens : ResetRead(c, tok)
    \/ \E c \in Procs : ResetCommit(c)
    \/ \E c \in Procs : ResetInvalidate(c)
    \/ TickExpiry

SpecReset == Init /\ [][NextReset]_vars

\* ---- properties ---------------------------------------------------------

\* the records created by rotating record i
Successors(tbl, i) == {j \in DOMAIN tbl : tbl[j].parent = i}

\* handler c returns in this step
Returns(c) == calls[c].pc # "idle" /\ calls'[c].pc = "idle"

\* the record a raw secret names, as a rotate call finds it
RecordOf(raw) == Lookup(tokens, HashToken(raw))

\* C1: of any number of concurrent rotate calls presenting the same valid
\* raw token exactly one succeeds, so no record ever has more than one
\* successor.
C1_ExactlyOneWinner ==
    \A i \in DOMAIN tokens : Cardinality(Successors(tokens, i)) <= 1

\* C2: a rotate call on an already revoked record fails with TokenReused
\* and, when it returns, every record of that record's family is revoked.
C2_ReplayRevokesFamily ==
    [][\A c \in Procs :
        (calls[c].pc \in {"theft", "theft_commit"} /\ Returns(c)) =>
            /\ ret' = "TokenReused"
            /\ \A i \in DOMAIN tokens' :
                  tokens'[i].token_family = tokens[calls[c].sid].token_family
                      => tokens'[i].is_revoked]_vars

C4_LoserTakesTheftPath ==
    [][\A c \in Procs :
        (calls[c].pc = "create" /\ Returns(c)
            /\ Successors(tokens, calls[c].sid) # {})
        => /\ ret' = "TokenReused"
           /\ \A i \in DOMAIN tokens' :
                 tokens'[i].token_family = tokens[calls[c].sid].token_family
                     => tokens'[i].is_revoked]_vars

\* C5: in every committed state a record revoked with reason "rotated" has
\* a successor, and the record a successor was rotated from is revoked.
C5_RevokeAndSuccessorTogether ==
    \A i \in DOMAIN tokens :
        /\ tokens[i].revoked_reason = "rotated" => Successors(tokens, i) # {}
        /\ tokens[i].parent # 0 => tokens[tokens[i].parent].is_revoked

\* a rotation has just been committed
C5_Witness ==
    /\ ret = "OK"
    /\ \E i \in DOMAIN tokens :
          /\ tokens[i].parent # 0
          /\ tokens[tokens[i].parent].revoked_reason = "rotated"
          /\ ~tokens[i].is_revoked

\* C6: a rotate call that fails with UserInactive writes nothing: it creates
\* no successor and the presented record is still non-revoked in the table.
C6_InactiveLeavesTokenActive ==
    [][\A c \in Procs :
        (Returns(c) /\ ret' = "UserInactive") =>
            /\ tokens' = tokens
            /\ ~tokens'[calls[c].sid].is_revoked
            /\ Successors(tokens', calls[c].sid) = {}]_vars

\* a rotate call has just failed with UserInactive on a live token
C6_Witness ==
    /\ ret = "UserInactive"
    /\ \E i \in DOMAIN tokens :
          ~tokens[i].is_revoked /\ ~IsExpired(tokens[i], now)
              /\ ~users[tokens[i].user_id]

\* C7: rotate checks the stored record in the order: absent -> InvalidToken,
\* revoked -> TokenReused (also when expired), expired -> Expired, owner
\* inactive -> UserInactive, else success.
C7_CheckOrder ==
    [][\A c \in Procs :
        /\ \A raw \in RawTokens : RotateRead(c, raw) =>
              LET i == RecordOf(raw) IN
              IF i = 0 THEN ret' = "InvalidToken"
              ELSE IF tokens[i].is_revoked THEN calls'[c].pc = "theft"
              ELSE IF now > tokens[i].expires_at THEN ret' = "Expired"
              ELSE calls'[c].pc = "user" /\ ret' = "none"
        /\ (calls[c].pc \in {"theft", "theft_commit"} /\ calls'[c] # calls[c]) =>
              \/ calls'[c].pc = "theft_commit" /\ ret' = "none"
              \/ Returns(c) /\ ret' = "TokenReused"
        /\ (calls[c].pc = "user" /\ calls'[c] # calls[c]) =>
              IF users[tokens[calls[c].sid].user_id]
              THEN calls'[c].pc = "create" /\ ret' = "none"
              ELSE Returns(c) /\ ret' = "UserInactive"
        /\ (calls[c].pc = "create" /\ calls'[c] # calls[c]) =>
              Returns(c) /\ ret' = "OK"]_vars

\* a record that is both revoked and expired has just been answered with
\* TokenReused
C7_Witness ==
    /\ ret = "TokenReused"
    /\ \E i \in DOMAIN tokens :
          tokens[i].revoked_reason = "family_revoked" /\ IsExpired(tokens[i], now)
              /\ tokens[i].revoked_at > tokens[i].expires_at

\* C8: a rotate call that fails with InvalidToken or Expired changes no
\* refresh-token record and creates none.
C8_FailureWritesNothing ==
    [][ret' \in {"InvalidToken", "Expired"} => tokens' = tokens]_vars

\* a rotate call on an expired, non-revoked record has just failed
C8_Witness ==
    /\ ret = "Expired"
    /\ \E i \in DOMAIN tokens : ~tokens[i].is_revoked /\ IsExpired(tokens[i], now)

\* C9: revoke_user_refresh_tokens marks the non-revoked records of the owner
\* revoked with the given reason, leaves every other record as it is, and is
\* idempotent: run twice in a row it leaves every record as the first run did.
C9_RevokeFamilyIdempotent ==
    /\ [](\A u \in Users, r1 \in {"logout", "manual"}, r2 \in {"logout", "manual"} :
            LET once == RevokeUserTokens(tokens, u, r1, now) IN
            /\ \A i \in DOMAIN tokens :
                  IF tokens[i].user_id = u /\ ~tokens[i].is_revoked
                  THEN once[i] = [tokens[i] EXCEPT !.is_revoked = TRUE,
                                                   !.revoked_at = now,
                                                   !.revoked_reason = r1]
                  ELSE once[i] = tokens[i]
            /\ RevokeUserTokens(once, u, r2, now + 1) = once)
    /\ [][\A c \in Procs :
            /\ (calls[c].pc = "idle" /\ calls'[c].pc = "revoke_commit") =>
                  calls'[c].rows = {i \in DOMAIN tokens :
                      tokens[i].user_id = calls'[c].uid /\ ~tokens[i].is_revoked}
            /\ (calls[c].pc = "revoke_commit" /\ Returns(c)) =>
                  /\ DOMAIN tokens' = DOMAIN tokens
                  /\ \A i \in DOMAIN tokens :
                        IF i \in calls[c].rows /\ ~tokens[i].is_revoked
                        THEN tokens'[i] = [tokens[i] EXCEPT
                                              !.is_revoked = TRUE,
                                              !.revoked_at = calls[c].at,
                                              !.revoked_reason = LogoutReason]
                        ELSE tokens'[i] = tokens[i]]_vars

\* a logout has just revoked a live record while another owner's stays live
C9_Witness ==
    /\ ret = "Revoked"
    /\ \E i, j \in DOMAIN tokens :
          /\ tokens[i].revoked_reason = "logout"
          /\ tokens[j].user_id # tokens[i].user_id
          /\ ~tokens[j].is_revoked

\* C10: with max = 5 and window = 300 s the 1st to 5th login checks of a key
\* inside one window are allowed, the 6th is denied with reset_in <= 300, and
\* the first check after the window has elapsed is allowed and starts a fresh
\* window with count 1.
C10_LoginWindow ==
    /\ [](\A k \in Idents : rl[k].count > 0 =>
            now < rl[k].expires_at /\ rl[k].expires_at <= now + 300)
    /\ [][\A k \in Idents : rl'[k] # rl[k] /\ now' = now =>
            /\ rl'[k].count = rl[k].count + 1
            /\ rl[k].count = 0 => rl'[k].expires_at = now + 300
            /\ rl[k].count > 0 => rl'[k].expires_at = rl[k].expires_at
            /\ limit'.allowed = (rl'[k].count <= 5)
            /\ limit'.reset_in = rl'[k].expires_at - now
            /\ limit'.reset_in <= 300
            /\ (ret' = "RateLimited") = (rl'[k].count >= 6)]_vars

\* a sixth login check inside one window has just been denied
C10_Witness ==
    /\ ret = "RateLimited"
    /\ ~limit.allowed
    /\ \E k \in Idents : rl[k].count = 6 /\ now > 0

\* a login check after the window elapsed has just started a fresh window
C10_FreshWindow ==
    /\ limit.allowed /\ limit.reset_in = 300
    /\ \E k \in Idents : rl[k].count = 1 /\ rl[k].expires_at = now + 300 /\ now >= 300

\* C11: under every interleaving of concurrent request-otp calls on one
\* mobile, at most max_count = 5 of the limiter checks that fall inside one
\* window are answered allowed, and exactly the allowed ones go on to create
\* a challenge.
C11_AtMostMaxAllowed ==
    /\ [](\A m \in Mobiles :
            /\ rl[OtpKey(m)].granted <= 5
            /\ rl[OtpKey(m)].granted <= rl[OtpKey(m)].count)
    /\ [][\A c \in Procs, m \in Mobiles : RequestOtpLimit(c, m) =>
            LET k == OtpKey(m) IN
            /\ limit'.allowed = (rl'[k].granted = rl[k].granted + 1)
            /\ ~limit'.allowed => rl'[k].granted = rl[k].granted
            /\ limit'.allowed = (calls'[c].pc = "otp_create")
            /\ ~limit'.allowed = (ret' = "RateLimited")]_vars

\* a sixth check of a window has just been denied while the other handler,
\* let through in the same window, has not yet created its challenge
C11_Witness ==
    /\ ret = "RateLimited"
    /\ ~limit.allowed
    /\ \E m \in Mobiles, c \in Procs :
          /\ rl[OtpKey(m)].count = 6
          /\ rl[OtpKey(m)].granted = 5
          /\ calls[c].pc = "otp_create" /\ calls[c].uid = m

\* C12: every limiter check raises the counter of its key by exactly one,
\* also when it denies, and changes no other key; no check lowers a counter;
\* once a key was denied in a window every further check of it is denied
\* until the window expires.
C12_IncrementAlways ==
    [][/\ \A id \in Idents, cred \in Creds : Login(id, cred) =>
            /\ rl'[id].count = rl[id].count + 1
            /\ \A k \in RateKeys \ {id} : rl'[k] = rl[k]
       /\ \A k \in RateKeys :
            /\ now' = now => rl'[k].count >= rl[k].count
            /\ rl'[k].count < rl[k].count => rl'[k].count = 0 /\ now' >= rl[k].expires_at
            /\ (rl[k].count > 5 /\ rl'[k] # rl[k] /\ now' = now) =>
                  ~limit'.allowed /\ ret' = "RateLimited"]_vars

\* a check of an already denied key has just been counted and denied again
C12_Witness ==
    /\ ret = "RateLimited"
    /\ \E k \in Idents : rl[k].count = 7 /\ rl[k].granted = 5

\* C13: the first step of every login, request-otp and refresh request is a
\* check of the rate limiter (the counter of the request's key goes up by
\* one before any durable record is read or written), and a request the
\* limiter denies changes no user, refresh-token or OTP record, leaves the
\* session cache as it is and mints no token.
C13_LimiterFirst ==
    [][/\ \A id \in Idents, cred \in Creds : Login(id, cred) =>
            /\ rl'[id].count = rl[id].count + 1
            /\ ~limit'.allowed =>
                  UNCHANGED <<tokens, users, otps, signups, cache>>
       /\ \A c \in Procs, m \in Mobiles : RequestOtpLimit(c, m) =>
            /\ rl'[OtpKey(m)].count = rl[OtpKey(m)].count + 1
            /\ UNCHANGED <<tokens, users, otps, signups, cache>>
            /\ ~limit'.allowed => calls'[c].pc = "idle"
       /\ \A c \in Procs, raw \in RawTokens : RotateRead(c, raw) =>
            /\ rl' # rl
            /\ limit' # NoAnswer]_vars

\* the rows of the OTP store that belong to the key of row i
SameKey(tbl, i) ==
    {j \in DOMAIN tbl : /\ tbl[j].identifier = tbl[i].identifier
                        /\ tbl[j].purpose = tbl[i].purpose}

\* what a verify-otp request answers when it fails
OtpFailures == {"OTPNotFound", "OTPExpired", "OTPAttemptsExceeded", "OTPMismatch"}

\* C14: once a second request-otp has superseded a still active challenge
\* of the same mobile, a verify-otp with the code of the first challenge
\* (when it differs from the second code) fails, mints no token and fills no
\* cache entry; a verify-otp succeeds only with the code of the newest
\* challenge of the mobile, and that code does verify while the challenge
\* is valid.
C14_NewRequestSupersedes ==
    /\ [](\A i \in DOMAIN otps, code \in Codes :
            (/\ \A j \in SameKey(otps, i) : j <= i
             /\ OtpIsValid(otps[i], now)
             /\ OtpHash(code) = otps[i].otp_hash)
            => VerifyAndConsumeOtp(otps, otps[i].identifier, code, now).result = "OK")
    /\ [][\A c \in Procs, m \in Mobiles, code \in Codes :
            VerifyOtpCheck(c, m, code) =>
                LET i == OtpLoad(otps, m, LoginPurpose) IN
                /\ (/\ i # 0
                    /\ otps[i].prev = OtpHash(code)
                    /\ otps[i].prev # otps[i].otp_hash)
                   => /\ ret' \in OtpFailures
                      /\ calls'[c].pc = "idle"
                      /\ UNCHANGED <<tokens, cache, signups>>
                /\ calls'[c].pc = "otp_user" =>
                      /\ i # 0
                      /\ \A j \in SameKey(otps, i) : j <= i
                      /\ OtpHash(code) = otps[i].otp_hash]_vars

\* a verify-otp with the code of a superseded challenge has just been
\* refused: the newest challenge replaced an active one with another code
\* and counts one mismatch
C14_Witness ==
    /\ ret = "OTPMismatch"
    /\ \E i \in DOMAIN otps :
          /\ otps[i].prev # 0
          /\ otps[i].prev # otps[i].otp_hash
          /\ otps[i].attempts = 1
          /\ ~otps[i].is_verified
          /\ ~OtpIsExpired(otps[i], now)

\* C15: a challenge is created with max_attempts = 5; a verify-otp on an
\* unexpired challenge with attempts >= 5 fails with OTPAttemptsExceeded
\* whatever the code, the correct one included, and leaves the challenge as
\* it is; below that a wrong code fails with OTPMismatch and raises attempts
\* by one, and only a correct code verifies.
C15_AttemptsBeforeCompare ==
    [][\A c \in Procs, m \in Mobiles, code \in Codes :
        VerifyOtpCheck(c, m, code) =>
            LET i == OtpLoad(otps, m, LoginPurpose) IN
            (i # 0 /\ ~otps[i].is_verified /\ now <= otps[i].expires_at) =>
                /\ otps[i].max_attempts = 5
                /\ IF otps[i].attempts >= 5
                   THEN /\ ret' = "OTPAttemptsExceeded"
                        /\ calls'[c].pc = "idle"
                        /\ otps' = otps
                        /\ UNCHANGED <<tokens, cache, signups>>
                   ELSE IF OtpHash(code) # otps[i].otp_hash
                   THEN /\ ret' = "OTPMismatch"
                        /\ calls'[c].pc = "idle"
                        /\ otps'[i].attempts = otps[i].attempts + 1
                        /\ ~otps'[i].is_verified
                   ELSE /\ calls'[c].pc = "otp_user"
                        /\ otps'[i].is_verified
                        /\ otps'[i].attempts = otps[i].attempts]_vars

\* a verify-otp on a challenge that five mismatches exhausted has just been
\* refused with OTPAttemptsExceeded
C15_Witness ==
    /\ ret = "OTPAttemptsExceeded"
    /\ \E i \in DOMAIN otps :
          /\ otps[i].attempts = 5
          /\ otps[i].compared = 5
          /\ ~otps[i].is_verified
          /\ ~OtpIsExpired(otps[i], now)

\* the verify-otp calls that passed the code check and have not answered yet
VerifyInFlight == {c \in Procs : calls[c].pc \in {"otp_user", "otp_issue"}}

\* C16: a verify-otp with the code of a valid challenge succeeds and
\* consumes it (is_verified, verified_at = now); over every interleaving at
\* most one verify call succeeds per challenge, one session is minted per
\* success, and a verify-otp on a consumed challenge fails with OTPNotFound
\* and changes nothing.
C16_VerifyAtMostOnce ==
    /\ [](\A i \in DOMAIN otps :
            /\ otps[i].wins <= 1
            /\ otps[i].is_verified = (otps[i].wins = 1)
            /\ otps[i].is_verified = (otps[i].verified_at # None))
    /\ [](Len(tokens) + Cardinality(VerifyInFlight)
            <= Cardinality({j \in DOMAIN otps : otps[j].is_verified}))
    /\ [][\A c \in Procs, m \in Mobiles, code \in Codes :
            VerifyOtpCheck(c, m, code) =>
                LET i == OtpLoad(otps, m, LoginPurpose) IN
                /\ (/\ i # 0
                    /\ ~otps[i].is_verified
                    /\ now <= otps[i].expires_at
                    /\ otps[i].attempts < otps[i].max_attempts
                    /\ OtpHash(code) = otps[i].otp_hash)
                   => /\ calls'[c].pc = "otp_user"
                      /\ otps'[i].is_verified
                      /\ otps'[i].verified_at = now
                /\ (i # 0 /\ otps[i].is_verified)
                   => /\ ret' = "OTPNotFound"
                      /\ calls'[c].pc = "idle"
                      /\ otps' = otps
                      /\ UNCHANGED <<tokens, cache, signups>>
                /\ calls'[c].pc = "otp_user" => otps[i].wins = 0]_vars

\* a verify-otp on a challenge that an earlier verify-otp consumed, and whose
\* session was minted, has just been refused
C16_Witness ==
    /\ ret = "OTPNotFound"
    /\ Len(tokens) = 1
    /\ Len(otps) = 1
    /\ otps[1].is_verified /\ otps[1].wins = 1
    /\ ~OtpIsExpired(otps[1], now)

\* C17: under every interleaving of verify-otp calls on one challenge the
\* attempts counter never exceeds max_attempts, it equals the number of
\* mismatches recorded (comparisons that did not succeed), and so at most
\* max_attempts wrong codes are ever compared with the stored hash.
C17_AttemptsBounded ==
    [](\A i \in DOMAIN otps :
          /\ otps[i].attempts <= otps[i].max_attempts
          /\ otps[i].attempts = otps[i].compared - otps[i].wins
          /\ otps[i].compared - otps[i].wins <= otps[i].max_attempts)

\* the last attempt of a challenge has just been used up by a mismatch
\* while the other handler is in the middle of a request on the same mobile
C17_Witness ==
    /\ ret = "OTPMismatch"
    /\ \E i \in DOMAIN otps, c \in Procs :
          /\ otps[i].attempts = otps[i].max_attempts
          /\ otps[i].compared = otps[i].max_attempts
          /\ calls[c].pc # "idle"
          /\ calls[c].uid = otps[i].identifier

CacheVariants ==
    {cache, {},
     {[token |-> a, user |-> tokens[a].user_id,
       expires_at |-> now + ACCESS_TOKEN_EXPIRE_SECONDS] : a \in DOMAIN tokens}}

\* C19: the session cache is no input to an authorization decision: in
\* every reachable state a refresh and a logout answer the same and leave
\* the same refresh-token records whether the cache is as it is, empty, or
\* holds an entry for every token; and whatever the cache holds, a login
\* answers what the limiter, the credentials and the account decide, and a
\* verify-otp that passed the code check mints its session.
C19_CacheNotAnInput ==
    /\ [](\A cch \in CacheVariants :
            /\ \A raw \in RawTokens :
                  LET r1 == RefreshResult(tokens, users, signups, cache, raw, now)
                      r2 == RefreshResult(tokens, users, signups, cch, raw, now)
                  IN r1.ret = r2.ret /\ r1.tokens = r2.tokens
            /\ \A a \in AccessTokens :
                  LET r1 == LogoutResult(tokens, cache, a, now)
                      r2 == LogoutResult(tokens, cch, a, now)
                  IN r1.ret = r2.ret /\ r1.tokens = r2.tokens)
    /\ [][/\ \A id \in Idents, cred \in Creds : Login(id, cred) =>
                /\ ret' = IF rl'[id].count <= 5
                          THEN LoginOutcome(id, cred) ELSE "RateLimited"
                /\ (tokens' # tokens) = (ret' = "LoginOK")
           /\ \A c \in Procs : VerifyOtpIssue(c) =>
                /\ ret' = "LoginOK"
                /\ Len(tokens') = Len(tokens) + 1
                /\ tokens'[Len(tokens')].user_id = calls[c].uid]_vars

\* a refresh has just succeeded although the cache had lost the entry of
\* the session it continues: only the new access token has an entry
C19_Witness ==
    /\ ret = "OK"
    /\ Len(tokens) = 2
    /\ tokens[2].parent = 1
    /\ \A e \in cache : e.token = 2
    /\ cache # {}

\* C20: no step of login, verify-otp, refresh, logout or revocation deletes
\* a refresh-token record or changes its token_hash, token_family, user_id
\* or expires_at, and a revoked record stays revoked.
C20_RecordsImmutable ==
    [][/\ Len(tokens') >= Len(tokens)
       /\ \A i \in DOMAIN tokens :
            /\ tokens'[i].token_hash = tokens[i].token_hash
            /\ tokens'[i].token_family = tokens[i].token_family
            /\ tokens'[i].user_id = tokens[i].user_id
            /\ tokens'[i].expires_at = tokens[i].expires_at
            /\ tokens[i].is_revoked => tokens'[i].is_revoked]_vars

\* a logout has just revoked the successor of a rotated record: both
\* records are still stored, each with the reason it was revoked for
C20_Witness ==
    /\ ret = "LoggedOut"
    /\ \E i \in DOMAIN tokens, j \in DOMAIN tokens :
          /\ tokens[i].revoked_reason = "rotated"
          /\ tokens[j].parent = i
          /\ tokens[j].revoked_reason = "logout"

\* C21: in every reachable state, under any interleaving of the requests,
\* each token family holds at most one non-revoked record: a rotation
\* replaces the consumed record with exactly one successor and no record has
\* two live successors.
C21_OneLivePerFamily ==
    /\ \A i \in DOMAIN tokens, j \in DOMAIN tokens :
          (/\ tokens[i].token_family = tokens[j].token_family
           /\ ~tokens[i].is_revoked
           /\ ~tokens[j].is_revoked) => i = j
    /\ \A i \in DOMAIN tokens :
          Cardinality({j \in Successors(tokens, i) : ~tokens[j].is_revoked}) <= 1

\* C22: when a logout carrying a valid access token of user U has returned,
\* every refresh-token record of U that existed when it started is revoked,
\* no rotation of a token that the logout revoked succeeds afterwards, and
\* the session cache holds no entry for that access token.
C22_LogoutEndsSessions ==
    [][/\ \A c \in Procs :
            /\ (calls[c].pc = "revoke_commit" /\ Returns(c)) =>
                  \A i \in calls[c].rows : tokens'[i].is_revoked
            /\ (calls[c].pc = "create" /\ Returns(c) /\ ret' = "OK") =>
                  tokens[calls[c].sid].revoked_reason # LogoutReason
       /\ \A a \in AccessTokens :
            (Logout(a) /\ DecodeToken(tokens, a, now) # 0) =>
                /\ \A i \in DOMAIN tokens :
                      tokens[i].user_id = DecodeToken(tokens, a, now)
                          => tokens'[i].is_revoked
                /\ \A e \in cache' : e.token # a]_vars

\* C23: the theft-detection path of rotate gives reason "family_revoked"
\* only to the records of the family that were non-revoked; the presented
\* record and every other record that was already revoked keep the
\* revoked_reason and revoked_at they had.
C23_TheftKeepsReasons ==
    [][\A c \in Procs : (calls[c].pc = "theft_commit" /\ Returns(c)) =>
          LET fam == tokens[calls[c].sid].token_family IN
          /\ ret' = "TokenReused"
          /\ \A i \in DOMAIN tokens :
                IF tokens[i].token_family = fam /\ ~tokens[i].is_revoked
                THEN tokens'[i] = [tokens[i] EXCEPT
                                      !.is_revoked = TRUE,
                                      !.revoked_at = calls[c].at,
                                      !.revoked_reason = "family_revoked"]
                ELSE /\ tokens'[i].revoked_reason = tokens[i].revoked_reason
                     /\ tokens'[i].revoked_at = tokens[i].revoked_at]_vars

\* C24: a record issued without a family (login, verify-otp) gets a family
\* id that no existing record carries, and the successor a rotation creates
\* has the family and the owner of the consumed record; hence in every
\* reachable state all records of one family have the same user_id.
C24_FamilyOwner ==
    /\ [](\A i \in DOMAIN tokens, j \in DOMAIN tokens :
            tokens[i].token_family = tokens[j].token_family
                => tokens[i].user_id = tokens[j].user_id)
    /\ [][\A i \in DOMAIN tokens' \ DOMAIN tokens :
            IF tokens'[i].parent = 0
            THEN \A j \in DOMAIN tokens :
                    tokens[j].token_family # tokens'[i].token_family
            ELSE /\ tokens'[i].token_family =
                        tokens[tokens'[i].parent].token_family
                 /\ tokens'[i].user_id = tokens[tokens'[i].parent].user_id]_vars

\* a rotation has just added a successor to the family of one account while
\* another account, registered by verify-otp, holds a family of its own
C24_Witness ==
    /\ ret = "OK"
    /\ \E i \in DOMAIN tokens, j \in DOMAIN tokens :
          /\ tokens[i].parent # 0
          /\ tokens[i].token_family = tokens[tokens[i].parent].token_family
          /\ tokens[j].user_id # tokens[i].user_id
          /\ tokens[j].token_family # tokens[i].token_family
          /\ tokens[j].parent = 0

\* C25: a request-otp that the limiter denies answers RateLimited, creates
\* no challenge and supersedes none: the challenge of the mobile that was
\* active before the denied request still verifies with its own code.
C25_DeniedRequestKeepsChallenge ==
    [][\A c \in Procs, m \in Mobiles :
        (RequestOtpLimit(c, m) /\ ~limit'.allowed) =>
            /\ ret' = "RateLimited"
            /\ calls'[c].pc = "idle"
            /\ otps' = otps
            /\ \A i \in DOMAIN otps, code \in Codes :
                  (/\ otps[i].identifier = m
                   /\ OtpActive(otps[i], now)
                   /\ OtpAttemptsLeft(otps[i])
                   /\ OtpHash(code) = otps[i].otp_hash)
                  => VerifyAndConsumeOtp(otps', m, code, now').result = "OK"]_vars

\* a request-otp has just been denied while the mobile holds an active
\* challenge with attempts left
C25_Witness ==
    /\ ret = "RateLimited"
    /\ ~limit.allowed
    /\ \A c \in Procs : calls[c].pc = "idle"
    /\ \E i \in DOMAIN otps :
          /\ rl[OtpKey(otps[i].identifier)].count > OTP_RATE_MAX
          /\ OtpActive(otps[i], now)
          /\ OtpAttemptsLeft(otps[i])

\* C26: challenges are keyed by (identifier, purpose): a request-otp naming
\* one purpose stores its challenge under that purpose and leaves an active
\* challenge of the same mobile under another purpose in place, the engine
\* touches only challenges of the key it is called for, and a verify-otp
\* signs in only with a challenge stored under the login purpose.
C26_KeyedByPurpose ==
    /\ [](\A m \in Mobiles, p \in Purposes, q \in Purposes, code \in Codes :
            p # q =>
                LET req == OtpRequest(otps, m, p, code, now)
                    ver == OtpVerify(otps, m, p, code, now).tbl
                IN \A i \in DOMAIN otps : otps[i].purpose = q =>
                      /\ \E j \in DOMAIN req : req[j] = otps[i]
                      /\ ver[i] = otps[i])
    /\ [][/\ \A m \in Mobiles, p \in Purposes : RequestOtpFor(m, p) =>
                /\ \A i \in DOMAIN otps :
                      (/\ otps[i].identifier = m
                       /\ otps[i].purpose # p
                       /\ OtpActive(otps[i], now))
                      => \E j \in DOMAIN otps' : otps'[j] = otps[i]
                /\ ret' = "OtpSent" =>
                      otps'[Len(otps')].purpose = p
          /\ \A m \in Mobiles, code \in Codes :
                (VerifyOtpFor(m, code) /\ ret' = "LoginOK") =>
                    LET i == OtpLoad(otps, m, LoginPurpose) IN
                    /\ i # 0
                    /\ otps[i].purpose = LoginPurpose
                    /\ otps[i].otp_hash = OtpHash(code)]_vars

\* C28: a refresh token is minted only for an active account: the owner of
\* every record that login, verify-otp or refresh creates has is_active true
\* when the record is created.
C28_MintOnlyForActive ==
    [][\A i \in DOMAIN tokens' \ DOMAIN tokens :
          IsActive(users, signups', tokens'[i].user_id)]_vars

\* C27: a password-reset token is single-use: under any sequence or
\* interleaving of confirm calls that present one token, at most one call
\* changes the password and succeeds, and a call that presents a token which
\* has already changed a password fails with "Invalid or expired token".
C27_ResetSingleUse ==
    /\ [](\A k \in DOMAIN resets : resets[k].uses <= 1)
    /\ [][\A c \in Procs :
            /\ \A tok \in ResetTokens :
                  (/\ ResetRead(c, tok)
                   /\ tok \in DOMAIN resets
                   /\ resets[tok].uses > 0)
                  => ret' = "Invalid or expired token"
            /\ (calls[c].pc = "reset_write" /\ calls'[c].pc = "reset_drop") =>
                  resets[calls[c].sid].uses = 0]_vars

\* the family of record i has seen rotations only: no logout, no
\* revoke_family and no replay of a consumed token has revoked one of its
\* records
RotatedOnly(tbl, i) ==
    \A j \in FamilyRows(tbl, tbl[i].token_family) :
        tbl[j].revoked_reason \in {"", "rotated"}

\* C29: a client that rotates one token after the other is never locked
\* out: as long as its family has seen rotations only, the family has
\* exactly one non-revoked record, the one no rotation has consumed; the raw
\* token of that record, presented before its expiry with the owner active,
\* passes every check, its rotation succeeds, and the token it returns is
\* again the one non-revoked, unexpired record of the family.
C29_SequentialNeverLockedOut ==
    /\ [](\A i \in DOMAIN tokens : RotatedOnly(tokens, i) =>
            /\ tokens[i].is_revoked = (Successors(tokens, i) # {})
            /\ Cardinality({j \in FamilyRows(tokens, tokens[i].token_family) :
                               ~tokens[j].is_revoked}) = 1)
    /\ [][/\ \A raw \in DOMAIN tokens :
                (/\ RotateRead(1, raw)
                 /\ RotatedOnly(tokens, raw)
                 /\ ~tokens[raw].is_revoked
                 /\ now <= tokens[raw].expires_at)
                => /\ calls'[1].pc = "user"
                   /\ calls'[1].sid = raw
          /\ (/\ RotateUserQuery(1)
              /\ RotatedOnly(tokens, calls[1].sid)
              /\ users[tokens[calls[1].sid].user_id])
             => calls'[1].pc = "create"
          /\ (RotateCommit(1) /\ RotatedOnly(tokens, calls[1].sid)) =>
               LET new == Len(tokens') IN
               /\ ret' = "OK"
               /\ new = Len(tokens) + 1
               /\ tokens'[new].parent = calls[1].sid
               /\ tokens'[new].token_hash = HashToken(new)
               /\ ~tokens'[new].is_revoked
               /\ now < tokens'[new].expires_at
               /\ RotatedOnly(tokens', new)]_vars

\* the second rotation in a row has just succeeded: the token the first
\* rotation returned was accepted and replaced
C29_Witness ==
    /\ ret = "OK"
    /\ Len(tokens) = 3
    /\ tokens[2].parent = 1
    /\ tokens[3].parent = 2
    /\ tokens[1].revoked_reason = "rotated"
    /\ tokens[2].revoked_reason = "rotated"
    /\ ~tokens[3].is_revoked

\* C30: the theft-detection path of rotate changes only records whose
\* token_family is that of the presented record: its UPDATE matches no
\* record of another family, and when it returns every record of every other
\* family, other families of the same user included, is as it was.
C30_TheftTouchesOwnFamilyOnly ==
    [][\A c \in Procs :
        /\ (calls[c].pc = "theft" /\ calls'[c].pc = "theft_commit") =>
              /\ tokens' = tokens
              /\ \A i \in calls'[c].rows :
                    tokens[i].token_family = tokens[calls[c].sid].token_family
        /\ (calls[c].pc = "theft_commit" /\ Returns(c)) =>
              /\ Len(tokens') = Len(tokens)
              /\ \A i \in DOMAIN tokens :
                    tokens[i].token_family # tokens[calls[c].sid].token_family
                        => tokens'[i] = tokens[i]]_vars

\* a replay has just revoked one family of a user while a record of another
\* family of the same user is still non-revoked
C30_Witness ==
    /\ ret = "TokenReused"
    /\ \E i \in DOMAIN tokens, j \in DOMAIN tokens :
          /\ tokens[i].revoked_reason = "family_revoked"
          /\ tokens[j].user_id = tokens[i].user_id
          /\ tokens[j].token_family # tokens[i].token_family
          /\ ~tokens[j].is_revoked

====
